---- MODULE Spec2Model ----
(***************************************************************************)
(* A model of the size-estimation component                                *)
(* (src/src/size_estimation/size_predictor.py, class SizeEstimator).       *)
(*                                                                         *)
(* Python values are records [kind, n, d]:                                 *)
(*   kind "num"  : an int or float, the exact rational n/d in lowest terms *)
(*                 (d > 0); binary floating-point rounding is not modelled *)
(*   kind "bool" : True (n = 1) or False (n = 0); bool is a subclass of    *)
(*                 int in Python                                           *)
(*   kind "none" : None                                                    *)
(*   kind "str"  : a string                                                *)
(*   kind "list" : a list                                                  *)
(* A measurement mapping (a dict) is a function from the keys it holds to  *)
(* values.  A call either returns a value or raises.                       *)
(***************************************************************************)
EXTENDS Integers, Sequences, FiniteSets, TLC

\* ------------------------------------------------------------- bounds
\* Shoulder widths are drawn at and just below the multiples of 5 up to
\* 5 * MaxStep.
MaxStep == 12
\* Largest class index a hard-label classifier is allowed to answer
\* (one past the last valid class).
MaxClassIndex == 6
\* Number of request handlers calling predict_size at the same time.
NumThreads == 2
\* Number of train_model calls made on one estimator.
MaxTrainings == 2
\* Longest list of model names download_models is asked for.
MaxRequested == 2
\* Number of login requests the clock counts.
MaxClock == 3
\* Number of points a np.random.uniform draw is taken from.
GridSteps == 10

\* -------------------------------------------------- program constants
\* measurements.get('torso_length', 100)
DefaultTorso == 100
\* reference_height: float = 170.0
DefaultReferenceHeight == 170

\* ----------------------------------------------------------- rationals
Abs(x) == IF x < 0 THEN -x ELSE x

RECURSIVE GCD(_, _)
GCD(a, b) == IF b = 0 THEN a ELSE GCD(b, a % b)

\* The rational n/d (d # 0) as a Python number, in lowest terms.
Num(n, d) ==
    LET g == GCD(Abs(n), Abs(d))
        s == IF d < 0 THEN -1 ELSE 1
    IN  [kind |-> "num", n |-> (s * n) \div g, d |-> (s * d) \div g]

PyInt(i) == Num(i, 1)
PyNone == [kind |-> "none", n |-> 0, d |-> 1]
PyStr == [kind |-> "str", n |-> 0, d |-> 1]
PyList == [kind |-> "list", n |-> 0, d |-> 1]
PyBool(b) == [kind |-> "bool", n |-> IF b THEN 1 ELSE 0, d |-> 1]

\* isinstance(value, (int, float)): bool is an int.
IsNumber(v) == v.kind \in {"num", "bool"}

RatMul(x, y) == Num(x.n * y.n, x.d * y.d)
RatDiv(x, y) == Num(x.n * y.d, x.d * y.n)
RatLt(x, y) == x.n * y.d < y.n * x.d

\* Python's ==: numbers (bools included) compare by value; None, the
\* string and the list only equal themselves.
PyEq(a, b) ==
    IF IsNumber(a) /\ IsNumber(b) THEN a.n * b.d = b.n * a.d
    ELSE a.kind = b.kind

\* ------------------------------------------------------------ outcomes
NoValue == "no value"
Returns(v) == [raised |-> FALSE, exc |-> "none", value |-> v]
Raises(e) == [raised |-> TRUE, exc |-> e, value |-> NoValue]

\* value * f for a float f: defined for numbers, TypeError otherwise
\* (None * 3.5, 'abc' * 3.5, [1, 2] * 3.5).
PyMul(v, f) == IF IsNumber(v) THEN Returns(RatMul(v, f)) ELSE Raises("TypeError")

\* value < bound for an int bound: TypeError for None and str.
PyLess(v, bound) ==
    IF IsNumber(v) THEN Returns(RatLt(v, PyInt(bound))) ELSE Raises("TypeError")

\* dict.get(key, default)
Get(measurements, key, default) ==
    IF key \in DOMAIN measurements THEN measurements[key] ELSE default

\* ------------------------------------------------------- SizeEstimator
feature_names ==
    <<"shoulder_width", "chest_width", "waist_width", "hip_width",
      "torso_length", "arm_length">>

size_mapping == [i \in 0..5 |-> <<"XS", "S", "M", "L", "XL", "XXL">>[i + 1]]

\* estimated_height_px (a faulty variant: the default torso length taken as 0).
EstimatedHeightPxNoDefault(measurements) ==
    PyMul(Get(measurements, "torso_length", PyInt(0)), Num(35, 10))

\* estimated_height_px = measurements.get('torso_length', 100) * 3.5
EstimatedHeightPx(measurements) ==
    PyMul(Get(measurements, "torso_length", PyInt(DefaultTorso)), Num(35, 10))

\* height_factor (a faulty variant: only a zero height is left unscaled).
HeightFactorZeroOnly(estimated_height_px, reference_height) ==
    IF estimated_height_px.n # 0
    THEN RatDiv(reference_height, RatMul(estimated_height_px, Num(1, 10)))
    ELSE PyInt(1)

\* height_factor
HeightFactor(estimated_height_px, reference_height) ==
    IF RatLt(PyInt(0), estimated_height_px)
    THEN RatDiv(reference_height, RatMul(estimated_height_px, Num(1, 10)))
    ELSE PyInt(1)

\* normalized (a faulty variant: torso_length itself is left as it is).
ScaledButTorso(measurements, height_factor) ==
    [key \in DOMAIN measurements |->
        IF IsNumber(measurements[key]) /\ key # "torso_length"
        THEN RatMul(measurements[key], height_factor)
        ELSE measurements[key]]

\* normalized: the loop over measurements.items()
Scaled(measurements, height_factor) ==
    [key \in DOMAIN measurements |->
        IF IsNumber(measurements[key])
        THEN RatMul(measurements[key], height_factor)
        ELSE measurements[key]]

normalize_measurements(measurements, reference_height) ==
    LET px == EstimatedHeightPx(measurements)
    IN  IF px.raised THEN px
        ELSE Returns(Scaled(measurements,
                            HeightFactor(px.value, reference_height)))

\* One entry of the feature list (a faulty variant: chest_width is always taken
\* from shoulder_width, also when the mapping holds a chest_width).
FeatureEntryChestImputed(measurements, feature_name) ==
    IF feature_name = "chest_width"
    THEN PyMul(Get(measurements, "shoulder_width", PyInt(0)), Num(11, 10))
    ELSE IF feature_name \in DOMAIN measurements
         THEN Returns(measurements[feature_name])
         ELSE IF feature_name = "waist_width"
              THEN PyMul(Get(measurements, "shoulder_width", PyInt(0)),
                         Num(75, 100))
              ELSE Returns(PyInt(0))

\* One entry of the feature list: the outcome of the loop body for
\* feature_name.
FeatureEntry(measurements, feature_name) ==
    IF feature_name \in DOMAIN measurements
    THEN Returns(measurements[feature_name])
    ELSE IF feature_name = "chest_width"
         THEN PyMul(Get(measurements, "shoulder_width", PyInt(0)), Num(11, 10))
         ELSE IF feature_name = "waist_width"
              THEN PyMul(Get(measurements, "shoulder_width", PyInt(0)), Num(75, 100))
              ELSE Returns(PyInt(0))

\* The 1 x 6 array np.array(features).reshape(1, -1), as a sequence of rows.
extract_features(measurements) ==
    LET entries == [i \in 1..Len(feature_names) |->
                      FeatureEntry(measurements, feature_names[i])]
    IN  IF \E i \in 1..Len(feature_names) : entries[i].raised
        THEN Raises("TypeError")
        ELSE Returns(<< [i \in 1..Len(feature_names) |-> entries[i].value] >>)

\* The size (a faulty variant: each boundary belongs to the smaller size).
SizeOfShoulderInclusive(shoulder_width) ==
    IF ~RatLt(PyInt(35), shoulder_width) THEN "XS"
    ELSE IF ~RatLt(PyInt(40), shoulder_width) THEN "S"
    ELSE IF ~RatLt(PyInt(45), shoulder_width) THEN "M"
    ELSE IF ~RatLt(PyInt(50), shoulder_width) THEN "L"
    ELSE IF ~RatLt(PyInt(55), shoulder_width) THEN "XL"
    ELSE "XXL"

\* The if / elif chain of _rule_based_prediction.
SizeOfShoulder(shoulder_width) ==
    IF RatLt(shoulder_width, PyInt(35)) THEN "XS"
    ELSE IF RatLt(shoulder_width, PyInt(40)) THEN "S"
    ELSE IF RatLt(shoulder_width, PyInt(45)) THEN "M"
    ELSE IF RatLt(shoulder_width, PyInt(50)) THEN "L"
    ELSE IF RatLt(shoulder_width, PyInt(55)) THEN "XL"
    ELSE "XXL"

_rule_based_prediction(measurements) ==
    LET shoulder_width == Get(measurements, "shoulder_width", PyInt(0))
    IN  IF PyLess(shoulder_width, 35).raised THEN Raises("TypeError")
        ELSE Returns([predicted_size |-> SizeOfShoulder(shoulder_width),
                      confidence |-> Num(1, 2),
                      method |-> "rule_based",
                      measurements_used |-> measurements])

\* np.argmax (a faulty variant: the last largest entry wins a tie).
ArgMaxLast(p) ==
    (CHOOSE i \in 1..Len(p) :
        /\ \A j \in 1..Len(p) : p[j] <= p[i]
        /\ \A j \in (i + 1)..Len(p) : p[j] < p[i]) - 1

\* np.argmax: the index (from 0) of the first largest entry.
ArgMax(p) ==
    (CHOOSE i \in 1..Len(p) :
        /\ \A j \in 1..Len(p) : p[j] <= p[i]
        /\ \A j \in 1..(i - 1) : p[j] < p[i]) - 1

\* What the libraries do in one predict_size call.  The scaler and the
\* classifier are opaque objects loaded from files: scaler.transform may
\* raise; the classifier may raise, answer a class index (predict) or a
\* vector of class probabilities in percent (predict_proba).
RaisingAnswer == [raises |-> TRUE, cls |-> 0, proba |-> <<>>]
ClassAnswer(c) == [raises |-> FALSE, cls |-> c, proba |-> <<>>]
ProbaAnswer(p) == [raises |-> FALSE, cls |-> 0, proba |-> p]

ProbVectors ==
    { <<10, 10, 60, 10, 5, 5>>,       \* a clear winner
      <<40, 40, 5, 5, 5, 5>>,         \* a tie: the lowest index wins
      <<0, 0, 0, 0, 0, 100>>,
      <<0, 0, 0, 0, 0, 10, 90>> }     \* a seventh class: no label for it

Answers(m) ==
    {RaisingAnswer} \cup
    (IF m = "hard" THEN {ClassAnswer(c) : c \in (-1)..MaxClassIndex}
     ELSE {ProbaAnswer(p) : p \in ProbVectors})

LibraryBehaviours(m) ==
    {[scaler_raises |-> FALSE, answer |-> a] : a \in Answers(m)}
    \cup {[scaler_raises |-> TRUE, answer |-> RaisingAnswer]}

\* The outcome of a call together with what it handed to the libraries
\* and what it logged.
Done(r, h, l) == [ret |-> r, handed |-> h, logged |-> l]

\* The except branch (a faulty variant: the error is logged and raised again).
FallbackReraising(measurements, h) ==
    Done(Raises("Exception"), h, <<"error: size prediction">>)

\* The except branch (a faulty variant: the rule is applied to the
\* normalized mapping when there is one).
FallbackOnNormalized(measurements, h) ==
    LET normalized == normalize_measurements(measurements,
                                             PyInt(DefaultReferenceHeight))
    IN  Done(_rule_based_prediction(IF normalized.raised THEN measurements
                                    ELSE normalized.value),
             h, <<"error: size prediction">>)

\* The except branch of predict_size.
Fallback(measurements, h) ==
    Done(_rule_based_prediction(measurements), h, <<"error: size prediction">>)

\* confidence (a faulty variant: a hard label is given confidence 0).
ConfidenceZeroForHard(has_proba, probabilities, predicted_class) ==
    IF has_proba THEN Num(probabilities[predicted_class + 1], 100)
    ELSE PyInt(0)

\* confidence: the probability of the predicted class, or 1.0.
Confidence(has_proba, probabilities, predicted_class) ==
    IF has_proba THEN Num(probabilities[predicted_class + 1], 100)
    ELSE PyInt(1)

\* The label lookup (a faulty variant: a default label instead of KeyError).
LabelOfOrUnknown(predicted_class) ==
    IF predicted_class \in DOMAIN size_mapping
    THEN Returns(size_mapping[predicted_class])
    ELSE Returns("Unknown")

\* self.size_mapping[predicted_class]: KeyError for a class without label.
LabelOf(predicted_class) ==
    IF predicted_class \in DOMAIN size_mapping
    THEN Returns(size_mapping[predicted_class])
    ELSE Raises("KeyError")

\* measurements_used (a faulty variant: the caller's mapping as given).
MeasurementsUsedRaw(measurements, normalized_measurements) == measurements

\* 'measurements_used': normalized_measurements
MeasurementsUsed(measurements, normalized_measurements) ==
    normalized_measurements

\* The threshold check (a faulty variant: a prediction below the threshold
\* is dropped for the rule-based one).
ThresholdedRejecting(measurements, features, confidence, confidence_threshold, result) ==
    IF RatLt(confidence, confidence_threshold)
    THEN Fallback(measurements, features)
    ELSE Done(Returns(result), features, <<>>)

\* The threshold check and the return: a low confidence is only logged.
Thresholded(measurements, features, confidence, confidence_threshold, result) ==
    Done(Returns(result), features,
         IF RatLt(confidence, confidence_threshold)
         THEN <<"warning: low confidence">> ELSE <<>>)

\* self.scaler.transform raises: the library fails, or the scaler is a
\* StandardScaler() not yet fitted (NotFittedError).
ScalerRaises(s, behaviour) ==
    s = "unfitted" \/ (s # "none" /\ behaviour.scaler_raises)

\* self.model.predict_proba / predict raises: the library fails, or the
\* classifier is not yet fitted.
ModelRaises(m, behaviour) == m = "unfitted" \/ behaviour.answer.raises

\* predict_size from the prediction step on: features are extracted.
Infer(m, s, measurements, normalized_measurements, features, confidence_threshold, behaviour) ==
    IF ScalerRaises(s, behaviour) \/ ModelRaises(m, behaviour)
    THEN Fallback(measurements, features)
    ELSE LET has_proba == (m = "proba")
             probabilities == behaviour.answer.proba
             predicted_class == IF has_proba THEN ArgMax(probabilities)
                                ELSE behaviour.answer.cls
             confidence == Confidence(has_proba, probabilities,
                                      predicted_class)
             predicted_size == LabelOf(predicted_class)
         IN  IF predicted_size.raised
             THEN Fallback(measurements, features)
             ELSE Thresholded(measurements, features, confidence,
                    confidence_threshold,
                    [predicted_size |-> predicted_size.value,
                     confidence |-> confidence,
                     all_probabilities |->
                         IF has_proba THEN probabilities ELSE PyNone,
                     measurements_used |->
                         MeasurementsUsed(measurements,
                                          normalized_measurements)])

\* m, s: self.model and self.scaler ("none" for None).
predict_size(m, s, measurements, confidence_threshold, behaviour) ==
    IF m = "none"
    THEN Done(_rule_based_prediction(measurements), <<>>,
              <<"warning: no model">>)
    ELSE LET normalized == normalize_measurements(measurements,
                                                  PyInt(DefaultReferenceHeight))
         IN  IF normalized.raised THEN Fallback(measurements, <<>>)
             ELSE LET features == extract_features(normalized.value)
                  IN  IF features.raised THEN Fallback(measurements, <<>>)
                      ELSE Infer(m, s, measurements, normalized.value,
                                 features.value, confidence_threshold,
                                 behaviour)

\* The caller's mapping after normalize_measurements (a faulty variant:
\* the values are scaled in place).
ArgumentAfterNormalizeInPlace(measurements, reference_height) ==
    LET r == normalize_measurements(measurements, reference_height)
    IN  IF r.raised THEN measurements ELSE r.value

\* The caller's mapping after normalize_measurements: every write goes to
\* the new mapping `normalized`.
ArgumentAfterNormalize(measurements, reference_height) == measurements

\* The caller's mapping after predict_size: the rule and extract_features
\* only read; normalization is the one step that builds a mapping.
ArgumentAfterPredict(m, measurements) ==
    IF m = "none" THEN measurements
    ELSE ArgumentAfterNormalize(measurements, PyInt(DefaultReferenceHeight))

\* --------------------------------------------------------------- inputs
\* The measurement mappings the calls are made with.  Absent marks a key
\* the mapping does not hold; it is not a Python value.
Absent == [kind |-> "absent", n |-> 0, d |-> 1]

Keys ==
    {"shoulder_width", "chest_width", "waist_width", "hip_width",
     "torso_length", "arm_length", "height"}

MkDict(c) == [k \in {k \in Keys : c[k] # Absent} |-> c[k]]

ShoulderWidths ==
    {PyInt(5 * i - e) : i \in 7..MaxStep, e \in {0, 1}} \cup {Num(449, 10)}

\* A few shoulder widths with every combination of the other keys.
CrossChoices ==
    [shoulder_width : {Absent, PyInt(42), PyNone, PyStr, PyBool(TRUE)},
     chest_width : {Absent, PyInt(44)},
     waist_width : {Absent, PyInt(34)},
     hip_width : {Absent, PyInt(44), PyNone},
     torso_length : {Absent, PyInt(0), PyInt(-5), PyInt(85), PyNone},
     arm_length : {Absent, PyInt(65)},
     height : {Absent, PyStr}]

\* Every shoulder width with little else.
SweepChoices ==
    [shoulder_width : ShoulderWidths,
     chest_width : {Absent, PyInt(44)},
     waist_width : {Absent},
     hip_width : {Absent, PyInt(44)},
     torso_length : {Absent, PyInt(85)},
     arm_length : {Absent},
     height : {Absent, PyList}]

SweepInputs == {MkDict(c) : c \in SweepChoices}
Inputs == {MkDict(c) : c \in CrossChoices} \cup SweepInputs

Thresholds == {Num(7, 10), Num(3, 10)}
ReferenceHeights == {PyInt(DefaultReferenceHeight), PyInt(180)}

\* ---------------------------------------------------------- artifacts
\* The paths given to __init__ and what is found there: "" is no path
\* (None), missing.pkl does not exist, corrupt.pkl exists and cannot be
\* loaded, the others hold a classifier with predict_proba, a classifier
\* with predict only, and a scaler.
ModelPaths == {"", "missing.pkl", "corrupt.pkl", "proba.pkl", "hard.pkl"}
ScalerPaths == {"", "missing.pkl", "corrupt.pkl", "std.pkl"}

\* os.path.exists(path)
PathExists(path) == path \notin {"", "missing.pkl"}

\* joblib.load(path) of an existing path
JoblibLoad(path) ==
    IF path = "corrupt.pkl" THEN Raises("Exception")
    ELSE Returns(CASE path = "proba.pkl" -> "proba"
                   [] path = "hard.pkl" -> "hard"
                   [] path = "std.pkl" -> "std")

\* load_model / load_scaler (a faulty variant: a failing load is not
\* caught).
LoadUnguarded(current, path) ==
    LET r == JoblibLoad(path)
    IN  [raised |-> r.raised, value |-> IF r.raised THEN current ELSE r.value]

\* load_model / load_scaler: the attribute after the call; a failing load
\* is logged and leaves the attribute as it was.
Load(current, path) ==
    LET r == JoblibLoad(path)
    IN  [raised |-> FALSE, value |-> IF r.raised THEN current ELSE r.value]

\* SizeEstimator.__init__: the attributes it leaves, and whether it raised.
__init__(model_path, scaler_path) ==
    LET m == IF model_path # "" /\ PathExists(model_path)
             THEN Load("none", model_path)
             ELSE [raised |-> FALSE, value |-> "none"]
        s == IF scaler_path # "" /\ PathExists(scaler_path)
             THEN Load("none", scaler_path)
             ELSE [raised |-> FALSE, value |-> "none"]
    IN  [raised |-> m.raised \/ (~m.raised /\ s.raised),
         model |-> m.value,
         scaler |-> IF m.raised THEN "none" ELSE s.value]

\* ---------------------------------------------------------------- state
VARIABLES
    ctor,       \* the paths __init__ was given, and whether it raised
    model,      \* self.model: "none", or the kind of classifier loaded
    scaler,     \* self.scaler: "none" or "std"
    call,       \* the last call made on the estimator
    ret,        \* its outcome: the value returned or the exception raised
    handed,     \* the feature array it passed to scaler / classifier
    lib,        \* what the scaler and the classifier did in the call
    logged,     \* what it logged
    caller_mapping, \* the mapping object the caller passed, after the call
    threads,    \* the concurrent callers: where each is in predict_size
    frames,     \* the local variables of the predict_size calls in flight
    trainer,    \* the train_model call: where it is, its arguments, outcome
    runs,       \* which train_model call made self.model and self.scaler
                \* (0: __init__)
    sample,     \* a row of generate_synthetic_data and the rule's answer
    disk,       \* the artifact files: what each path holds
    persist,    \* save_model, the estimator built from what it saved, and
                \* one prediction of each
    dl,         \* scripts/download_models.py: the loop, the files, the report
    ds,         \* scripts/download_datasets.py: the loop, the directories,
                \* the manifest
    auth        \* api/auth.py: users, the client's session, the last response

\* What belongs to training.
training == <<trainer, runs>>

\* What lies outside the estimator object.
scripts == <<dl, ds, auth>>
outside == <<sample, disk, persist, scripts>>

vars == <<ctor, model, scaler, call, ret, handed, lib, logged, caller_mapping, threads, frames, training, outside>>

NoCall == [op |-> "none", measurements |-> <<>>, arg |-> PyNone]

\* The library behaviour recorded for a call that reached no library.
NoLibrary == [scaler_raises |-> FALSE, answer |-> RaisingAnswer]

\* The concurrent callers.
Threads == 1..NumThreads

NoOut == Done(Returns(PyNone), <<>>, <<>>)

\* A caller outside predict_size.  overlapped records that another call
\* was in flight during this one.
NotRead == [obj |-> "unread", run |-> 0]

IdleThread ==
    [pc |-> "idle", input |-> <<>>, arg |-> PyNone, behaviour |-> NoLibrary,
     out |-> NoOut, overlapped |-> FALSE,
     scaler_seen |-> NotRead, model_seen |-> NotRead]

\* An attribute that is None / a path that holds no file.
NoObject == [obj |-> "none", run |-> 0]

ArtifactPaths == {"model.pkl", "scaler.pkl"}

NotSaved ==
    [pc |-> "unsaved", model_path |-> "", scaler_path |-> "",
     saved |-> [model |-> NoObject, scaler |-> NoObject],
     reloaded |-> [model |-> NoObject, scaler |-> NoObject],
     outcomes |-> <<>>]

\* The scripts and the login handler before they run.
NotStarted == [pc |-> "not started"]

NoSample == [pc |-> "none", size |-> "", row |-> <<>>, rule |-> Returns(PyNone)]

\* No train_model call in progress; run counts the calls made so far.
IdleTrainer(run) ==
    [pc |-> "idle", model_type |-> "", training_data |-> "", run |-> run,
     before |-> <<>>, out |-> Returns(PyNone)]

\* The locals of a call not yet made.
NoFrame ==
    [measurements |-> <<>>, confidence_threshold |-> PyNone,
     normalized_measurements |-> <<>>, features |-> <<>>]

\* The estimator SizeEstimator(model_path, scaler_path) has built.
Constructed(model_path, scaler_path) ==
    LET r == __init__(model_path, scaler_path)
    IN  /\ ctor = [model_path |-> model_path, scaler_path |-> scaler_path,
                   raised |-> r.raised]
        /\ model = r.model
        /\ scaler = r.scaler

Idle ==
    /\ call = NoCall
    /\ ret = Returns(PyNone)
    /\ handed = <<>>
    /\ lib = NoLibrary
    /\ logged = <<>>
    /\ caller_mapping = <<>>
    /\ threads = [t \in Threads |-> IdleThread]
    /\ frames = [t \in Threads |-> NoFrame]
    /\ trainer = IdleTrainer(0)
    /\ runs = [model |-> 0, scaler |-> 0]
    /\ sample = NoSample
    /\ disk = [path \in ArtifactPaths |-> NoObject]
    /\ persist = NotSaved
    /\ dl = NotStarted
    /\ ds = NotStarted
    /\ auth = NotStarted

\* The estimator after __init__, each artifact given as no path or as a
\* file that loads.
Init ==
    /\ \E model_path \in {"", "proba.pkl", "hard.pkl"},
          scaler_path \in {"", "std.pkl"} :
            Constructed(model_path, scaler_path)
    /\ Idle

\* predict_size on one of the given mappings (a faulty variant: a model
\* whose inference failed is dropped).
PredictSizeOnDroppingModel(inputs) ==
    /\ ~ctor.raised
    /\ call = NoCall
    /\ \E measurements \in inputs, confidence_threshold \in Thresholds,
          behaviour \in LibraryBehaviours(model) :
        LET r == predict_size(model, scaler, measurements,
                              confidence_threshold, behaviour)
        IN  /\ call' = [op |-> "predict_size", measurements |-> measurements,
                        arg |-> confidence_threshold]
            /\ ret' = r.ret
            /\ handed' = r.handed
            /\ lib' = IF r.handed = <<>> THEN NoLibrary ELSE behaviour
            /\ logged' = r.logged
            /\ caller_mapping' = ArgumentAfterPredict(model, measurements)
            /\ model' = IF r.logged = <<"error: size prediction">>
                        THEN "none" ELSE model
            /\ UNCHANGED <<ctor, scaler, threads, frames, training, outside>>

\* predict_size on one of the given mappings.  The estimator keeps nothing
\* of a call; a call is made when the outcome of the one before it has
\* been taken by its caller.
PredictSizeOn(inputs) ==
    /\ ~ctor.raised
    /\ call = NoCall
    /\ \E measurements \in inputs, confidence_threshold \in Thresholds,
          behaviour \in LibraryBehaviours(model) :
        LET r == predict_size(model, scaler, measurements,
                              confidence_threshold, behaviour)
        IN  /\ call' = [op |-> "predict_size", measurements |-> measurements,
                        arg |-> confidence_threshold]
            /\ ret' = r.ret
            /\ handed' = r.handed
            /\ lib' = IF r.handed = <<>> THEN NoLibrary ELSE behaviour
            /\ logged' = r.logged
            /\ caller_mapping' = ArgumentAfterPredict(model, measurements)
            /\ UNCHANGED <<ctor, model, scaler, threads, frames, training, outside>>

PredictSize == PredictSizeOn(Inputs)

NormalizeMeasurements ==
    /\ ~ctor.raised
    /\ call = NoCall
    /\ \E measurements \in Inputs, reference_height \in ReferenceHeights :
        /\ call' = [op |-> "normalize_measurements",
                    measurements |-> measurements, arg |-> reference_height]
        /\ ret' = normalize_measurements(measurements, reference_height)
        /\ handed' = <<>>
        /\ lib' = NoLibrary
        /\ logged' = <<>>
        /\ caller_mapping' = ArgumentAfterNormalize(measurements,
                                                     reference_height)
        /\ UNCHANGED <<ctor, model, scaler, threads, frames, training, outside>>

ExtractFeatures ==
    /\ ~ctor.raised
    /\ call = NoCall
    /\ \E measurements \in Inputs :
        /\ call' = [op |-> "extract_features", measurements |-> measurements,
                    arg |-> PyNone]
        /\ ret' = extract_features(measurements)
        /\ handed' = <<>>
        /\ lib' = NoLibrary
        /\ logged' = <<>>
        /\ caller_mapping' = measurements
        /\ UNCHANGED <<ctor, model, scaler, threads, frames, training, outside>>

\* The caller takes the outcome.
TakeResult ==
    /\ call # NoCall
    /\ call' = NoCall
    /\ ret' = Returns(PyNone)
    /\ handed' = <<>>
    /\ lib' = NoLibrary
    /\ logged' = <<>>
    /\ caller_mapping' = <<>>
    /\ UNCHANGED <<ctor, model, scaler, threads, frames, training, outside>>

Next == PredictSize \/ NormalizeMeasurements \/ ExtractFeatures \/ TakeResult

Spec == Init /\ [][Next]_vars

\* The estimator after __init__ with every kind of path, then predict_size.
InitArtifacts ==
    /\ \E model_path \in ModelPaths, scaler_path \in ScalerPaths :
            Constructed(model_path, scaler_path)
    /\ Idle

ArtifactInputs == SweepInputs \cup {MkDict(c) : c \in
    [shoulder_width : {PyNone}, chest_width : {Absent}, waist_width : {Absent},
     hip_width : {Absent}, torso_length : {Absent}, arm_length : {Absent},
     height : {Absent}]}

PredictSizeSweep == PredictSizeOn(ArtifactInputs)

NextArtifacts == PredictSizeSweep \/ TakeResult

SpecArtifacts == InitArtifacts /\ [][NextArtifacts]_vars

\* ----------------------------------------------------- concurrent calls
\* predict_size called by several request handlers at once, one statement
\* group at a time.  self.model and self.scaler are read where the code
\* reads them; every other name of predict_size is a local of the call.
NoKeys == [k \in Keys |-> Absent]

ConcInputs ==
    { MkDict([NoKeys EXCEPT !["shoulder_width"] = PyInt(42)]),
      MkDict([NoKeys EXCEPT !["shoulder_width"] = PyInt(44),
                            !["chest_width"] = PyInt(44),
                            !["torso_length"] = PyInt(85)]),
      MkDict([NoKeys EXCEPT !["shoulder_width"] = PyInt(42),
                            !["torso_length"] = PyNone]) }

ConcBehaviours(m) ==
    IF m = "none" THEN {NoLibrary}
    ELSE {b \in LibraryBehaviours(m) :
            \/ b.scaler_raises
            \/ b.answer \in {ClassAnswer(2),
                             ProbaAnswer(<<40, 40, 5, 5, 5, 5>>)}}

\* Where the locals of thread t's call live (a faulty variant: one place
\* for all calls, as attributes of the estimator would be).
FrameShared(t) == 1

\* Where the locals of thread t's call live: in the call's own frame.
Frame(t) == t

Busy(t) == threads[t].pc \notin {"idle", "returned"}
Racing(t) == \E u \in Threads \ {t} : Busy(u)

\* Thread t moves to pc with outcome out, having read self.scaler and
\* self.model as given.
AdvanceReading(t, pc, out, scaler_seen, model_seen) ==
    threads' = [threads EXCEPT ![t] = [@ EXCEPT !.pc = pc, !.out = out,
                                  !.overlapped = @ \/ Racing(t),
                                  !.scaler_seen = scaler_seen,
                                  !.model_seen = model_seen]]

\* Thread t moves to pc with outcome out.
Advance(t, pc, out) ==
    AdvanceReading(t, pc, out, threads[t].scaler_seen, threads[t].model_seen)

EstimatorUntouched ==
    UNCHANGED <<ctor, model, scaler, call, ret, handed, lib, logged, caller_mapping, training, outside>>

\* The call is made: the arguments are bound.
Call(t) ==
    /\ ~ctor.raised
    /\ threads[t].pc = "idle"
    /\ \E measurements \in ConcInputs, behaviour \in ConcBehaviours(model) :
        LET confidence_threshold == Num(7, 10)
        IN  /\ threads' = [threads EXCEPT ![t] =
                  [pc |-> "check", input |-> measurements,
                   arg |-> confidence_threshold, behaviour |-> behaviour,
                   out |-> NoOut, overlapped |-> Racing(t),
                   scaler_seen |-> NotRead, model_seen |-> NotRead]]
            /\ frames' = [frames EXCEPT ![Frame(t)] =
                  [NoFrame EXCEPT !.measurements = measurements,
                       !.confidence_threshold = confidence_threshold]]
    /\ EstimatorUntouched

\* if self.model is None: ... return self._rule_based_prediction(...)
CheckModel(t) ==
    /\ threads[t].pc = "check"
    /\ LET l == frames[Frame(t)]
       IN  IF model = "none"
           THEN Advance(t, "returned",
                        Done(_rule_based_prediction(l.measurements), <<>>,
                             <<"warning: no model">>))
           ELSE Advance(t, "normalize", NoOut)
    /\ UNCHANGED frames
    /\ EstimatorUntouched

\* normalized_measurements = self.normalize_measurements(measurements)
Normalize(t) ==
    /\ threads[t].pc = "normalize"
    /\ LET l == frames[Frame(t)]
           r == normalize_measurements(l.measurements,
                                       PyInt(DefaultReferenceHeight))
       IN  IF r.raised
           THEN /\ Advance(t, "returned", Fallback(l.measurements, <<>>))
                /\ UNCHANGED frames
           ELSE /\ Advance(t, "extract", NoOut)
                /\ frames' = [frames EXCEPT
                      ![Frame(t)].normalized_measurements = r.value]
    /\ EstimatorUntouched

\* features = self.extract_features(normalized_measurements)
Extract(t) ==
    /\ threads[t].pc = "extract"
    /\ LET l == frames[Frame(t)]
           r == extract_features(l.normalized_measurements)
       IN  IF r.raised
           THEN /\ Advance(t, "returned", Fallback(l.measurements, <<>>))
                /\ UNCHANGED frames
           ELSE /\ Advance(t, "scale", NoOut)
                /\ frames' = [frames EXCEPT ![Frame(t)].features = r.value]
    /\ EstimatorUntouched

\* if self.scaler: features = self.scaler.transform(features)
Scale(t) ==
    /\ threads[t].pc = "scale"
    /\ LET l == frames[Frame(t)]
           seen == [obj |-> scaler, run |-> runs.scaler]
       IN  IF ScalerRaises(scaler, threads[t].behaviour)
           THEN AdvanceReading(t, "returned",
                               Fallback(l.measurements, l.features),
                               seen, threads[t].model_seen)
           ELSE AdvanceReading(t, "predict", NoOut, seen,
                               threads[t].model_seen)
    /\ UNCHANGED frames
    /\ EstimatorUntouched

\* The prediction, the label, the threshold check and the result.
Predict(t) ==
    /\ threads[t].pc = "predict"
    /\ LET l == frames[Frame(t)]
       IN  AdvanceReading(t, "returned",
                   Infer(model, "none", l.measurements,
                         l.normalized_measurements, l.features,
                         l.confidence_threshold, threads[t].behaviour),
                   threads[t].scaler_seen,
                   [obj |-> model, run |-> runs.model])
    /\ UNCHANGED frames
    /\ EstimatorUntouched

\* The caller takes the result; the frame of the call is gone.
Return(t) ==
    /\ threads[t].pc = "returned"
    /\ threads' = [threads EXCEPT ![t] = IdleThread]
    /\ frames' = [frames EXCEPT ![Frame(t)] = NoFrame]
    /\ EstimatorUntouched

NextConcurrent ==
    \E t \in Threads :
        \/ Call(t)
        \/ CheckModel(t)
        \/ Normalize(t)
        \/ Extract(t)
        \/ Scale(t)
        \/ Predict(t)
        \/ Return(t)

SpecConcurrent == Init /\ [][NextConcurrent]_vars

\* -------------------------------------------------------------- training
\* train_model, one statement group at a time, on an estimator that one
\* request handler may be calling predict_size on.  A freshly built
\* StandardScaler / classifier is "unfitted" until fit returns; a fitted
\* XGBClassifier or RandomForestClassifier has predict_proba.
ModelTypes == {"xgboost", "random_forest", "svm"}

\* training_data: the synthetic frame, or a frame without the size column.
TrainingData == {"synthetic", "no_size_column"}

\* The model types train_model accepts (a faulty variant: any other type
\* is trained as the default).
IsSupportedLenient(model_type) == TRUE

\* The model types train_model accepts.
IsSupported(model_type) == model_type \in {"xgboost", "random_forest"}

TrainerMoves(pc, out) ==
    trainer' = [trainer EXCEPT !.pc = pc, !.out = out]

TrainerOnly ==
    UNCHANGED <<ctor, call, ret, handed, lib, logged, caller_mapping, threads, frames, outside>>

\* train_model(training_data, model_type) is called.
TrainCall ==
    /\ ~ctor.raised
    /\ trainer.pc = "idle"
    /\ trainer.run < MaxTrainings
    /\ \E training_data \in TrainingData, model_type \in ModelTypes :
        trainer' = [pc |-> "prepare", model_type |-> model_type,
                    training_data |-> training_data, run |-> trainer.run + 1,
                    before |-> [model |-> model, scaler |-> scaler,
                                runs |-> runs],
                    out |-> Returns(PyNone)]
    /\ UNCHANGED <<model, scaler, runs>>
    /\ TrainerOnly

\* X, y and the split: a frame without the columns raises KeyError.
TrainPrepare ==
    /\ trainer.pc = "prepare"
    /\ IF trainer.training_data = "synthetic"
       THEN TrainerMoves("new_scaler", trainer.out)
       ELSE TrainerMoves("returned", Raises("KeyError"))
    /\ UNCHANGED <<model, scaler, runs>>
    /\ TrainerOnly

\* self.scaler = StandardScaler()
TrainNewScaler ==
    /\ trainer.pc = "new_scaler"
    /\ scaler' = "unfitted"
    /\ runs' = [runs EXCEPT !.scaler = trainer.run]
    /\ TrainerMoves("fit_scaler", trainer.out)
    /\ UNCHANGED model
    /\ TrainerOnly

\* X_train_scaled = self.scaler.fit_transform(X_train)
TrainFitScaler ==
    /\ trainer.pc = "fit_scaler"
    /\ scaler' = "std"
    /\ TrainerMoves("new_model", trainer.out)
    /\ UNCHANGED <<model, runs>>
    /\ TrainerOnly

\* self.model = xgb.XGBClassifier(...) / RandomForestClassifier(...), or
\* raise ValueError
TrainNewModel ==
    /\ trainer.pc = "new_model"
    /\ IF IsSupported(trainer.model_type)
       THEN /\ model' = "unfitted"
            /\ runs' = [runs EXCEPT !.model = trainer.run]
            /\ TrainerMoves("fit", trainer.out)
       ELSE /\ TrainerMoves("returned", Raises("ValueError"))
            /\ UNCHANGED <<model, runs>>
    /\ UNCHANGED scaler
    /\ TrainerOnly

\* self.model.fit(X_train_scaled, y_train)
TrainFit ==
    /\ trainer.pc = "fit"
    /\ model' = "proba"
    /\ TrainerMoves("evaluate", trainer.out)
    /\ UNCHANGED <<scaler, runs>>
    /\ TrainerOnly

\* The evaluation and the results.
TrainEvaluate ==
    /\ trainer.pc = "evaluate"
    /\ TrainerMoves("returned",
                    Returns([model_type |-> trainer.model_type,
                             keys |-> {"accuracy", "model_type",
                                       "feature_importance",
                                       "classification_report"}]))
    /\ UNCHANGED <<model, scaler, runs>>
    /\ TrainerOnly

\* The caller of train_model takes the outcome.
TrainReturn ==
    /\ trainer.pc = "returned"
    /\ trainer' = IdleTrainer(trainer.run)
    /\ UNCHANGED <<model, scaler, runs>>
    /\ TrainerOnly

\* predict_size by one request handler, statement group by statement group.
Serve ==
    \/ Call(1)
    \/ CheckModel(1)
    \/ Normalize(1)
    \/ Extract(1)
    \/ Scale(1)
    \/ Predict(1)
    \/ Return(1)

\* The estimator after __init__ with no model or with a classifier that
\* has predict_proba.
InitTraining ==
    /\ \E model_path \in {"", "proba.pkl"}, scaler_path \in {"", "std.pkl"} :
            Constructed(model_path, scaler_path)
    /\ Idle

NextTraining ==
    \/ TrainCall
    \/ TrainPrepare
    \/ TrainNewScaler
    \/ TrainFitScaler
    \/ TrainNewModel
    \/ TrainFit
    \/ TrainEvaluate
    \/ TrainReturn
    \/ Serve

SpecTraining == InitTraining /\ [][NextTraining]_vars

\* ------------------------------------------------------- synthetic data
\* generate_synthetic_data: one row at a time, and the rule applied to it.
size_stats ==
    [XS  |-> [shoulder |-> <<30, 35>>, chest |-> <<32, 37>>,
              waist |-> <<24, 28>>, hip |-> <<34, 38>>],
     S   |-> [shoulder |-> <<35, 40>>, chest |-> <<37, 42>>,
              waist |-> <<28, 32>>, hip |-> <<38, 42>>],
     M   |-> [shoulder |-> <<40, 45>>, chest |-> <<42, 47>>,
              waist |-> <<32, 36>>, hip |-> <<42, 46>>],
     L   |-> [shoulder |-> <<45, 50>>, chest |-> <<47, 52>>,
              waist |-> <<36, 40>>, hip |-> <<46, 50>>],
     XL  |-> [shoulder |-> <<50, 55>>, chest |-> <<52, 57>>,
              waist |-> <<40, 44>>, hip |-> <<50, 54>>],
     XXL |-> [shoulder |-> <<55, 60>>, chest |-> <<57, 62>>,
              waist |-> <<44, 48>>, hip |-> <<54, 58>>]]

RatAdd(x, y) == Num(x.n * y.d + y.n * x.d, x.d * y.d)

\* np.random.uniform (a faulty variant: high can be drawn).
UniformClosed(low, high, steps) ==
    {RatAdd(low, RatMul(Num(k, steps), RatAdd(high, RatMul(PyInt(-1), low)))) :
        k \in 0..steps}

\* np.random.uniform(low, high): a value of [low, high), low included and
\* high excluded; here one of `steps` evenly spaced points.
Uniform(low, high, steps) ==
    {RatAdd(low, RatMul(Num(k, steps), RatAdd(high, RatMul(PyInt(-1), low)))) :
        k \in 0..(steps - 1)}

\* np.random.uniform(*stats[part])
UniformOf(interval, steps) ==
    Uniform(PyInt(interval[1]), PyInt(interval[2]), steps)

SampleOnly ==
    UNCHANGED <<ctor, model, scaler, call, ret, handed, lib, logged, caller_mapping, threads, frames, training, disk, persist, scripts>>

\* One pass of the loop of generate_synthetic_data.
GenerateSample ==
    /\ sample.pc = "none"
    /\ \E size \in DOMAIN size_stats :
        LET stats == size_stats[size]
        IN  \E shoulder_width \in UniformOf(stats.shoulder, GridSteps),
               chest_width \in UniformOf(stats.chest, 2),
               waist_width \in UniformOf(stats.waist, 1),
               hip_width \in UniformOf(stats.hip, 1),
               torso \in Uniform(Num(18, 10), Num(22, 10), 2),
               arm \in Uniform(Num(14, 10), Num(18, 10), 1) :
            sample' = [pc |-> "drawn", size |-> size,
                       row |-> [k \in Keys \ {"height"} |->
                          CASE k = "shoulder_width" -> shoulder_width
                            [] k = "chest_width" -> chest_width
                            [] k = "waist_width" -> waist_width
                            [] k = "hip_width" -> hip_width
                            [] k = "torso_length" ->
                                   RatMul(shoulder_width, torso)
                            [] k = "arm_length" ->
                                   RatMul(shoulder_width, arm)],
                       rule |-> Returns(PyNone)]
    /\ SampleOnly

\* _rule_based_prediction on the measurements of the row.
RuleOnSample ==
    /\ sample.pc = "drawn"
    /\ sample' = [sample EXCEPT !.pc = "ruled",
                                !.rule = _rule_based_prediction(sample.row)]
    /\ SampleOnly

\* The next row.
NextSample ==
    /\ sample.pc = "ruled"
    /\ sample' = NoSample
    /\ SampleOnly

InitSynthetic == Constructed("", "") /\ Idle

NextSynthetic == GenerateSample \/ RuleOnSample \/ NextSample

SpecSynthetic == InitSynthetic /\ [][NextSynthetic]_vars

\* ------------------------------------------------------------- persistence
\* train_model, then save_model, then a SizeEstimator built from the
\* paths save_model was given, then one predict_size on each estimator.
\* An object is named by its kind and the train_model call that made it.

\* The files after save_model(model_path, scaler_path); "" is None.
SavedFiles(files, m, s, model_path, scaler_path) ==
    LET with_model == IF m.obj # "none" THEN [files EXCEPT ![model_path] = m]
                      ELSE files
    IN  IF s.obj # "none" /\ scaler_path # ""
        THEN [with_model EXCEPT ![scaler_path] = s]
        ELSE with_model

\* path and os.path.exists(path)
GivenAndExists(files, path) == path # "" /\ files[path] # NoObject

\* SizeEstimator(model_path, scaler_path) on these files.
ConstructFrom(files, model_path, scaler_path) ==
    [model |-> IF GivenAndExists(files, model_path) THEN files[model_path]
               ELSE NoObject,
     scaler |-> IF GivenAndExists(files, scaler_path) THEN files[scaler_path]
                ELSE NoObject]

PersistOnly ==
    UNCHANGED <<ctor, model, scaler, call, ret, handed, lib, logged, caller_mapping, threads, frames, training, sample, scripts>>

\* save_model(model_path, scaler_path), scaler_path given or left out.
SaveModel ==
    /\ ~ctor.raised
    /\ trainer.pc = "idle"
    /\ persist.pc = "unsaved"
    /\ \E scaler_path \in {"", "scaler.pkl"} :
        LET m == [obj |-> model, run |-> runs.model]
            sc == [obj |-> scaler, run |-> runs.scaler]
        IN  /\ disk' = SavedFiles(disk, IF model = "none" THEN NoObject ELSE m,
                                  IF scaler = "none" THEN NoObject ELSE sc,
                                  "model.pkl", scaler_path)
            /\ persist' = [persist EXCEPT !.pc = "saved",
                  !.model_path = "model.pkl", !.scaler_path = scaler_path,
                  !.saved = [model |-> IF model = "none" THEN NoObject ELSE m,
                             scaler |-> IF scaler = "none" THEN NoObject
                                        ELSE sc]]
    /\ PersistOnly

\* SizeEstimator(model_path, scaler_path) with the paths just saved to.
Reconstruct ==
    /\ persist.pc = "saved"
    /\ persist' = [persist EXCEPT !.pc = "reloaded",
          !.reloaded = ConstructFrom(disk, persist.model_path,
                                     persist.scaler_path)]
    /\ UNCHANGED disk
    /\ PersistOnly

\* predict_size on the saved estimator and on the one built from the
\* files.  The libraries answer the same way where classifier and scaler
\* are the same objects; otherwise each answers in its own way.
PredictOnBoth ==
    /\ persist.pc = "reloaded"
    /\ \E measurements \in ConcInputs,
          b1 \in ConcBehaviours(persist.saved.model.obj),
          b2 \in ConcBehaviours(persist.reloaded.model.obj) :
        /\ persist.reloaded = persist.saved => b2 = b1
        /\ persist' = [persist EXCEPT !.pc = "compared",
              !.outcomes =
                 << predict_size(persist.saved.model.obj,
                                 persist.saved.scaler.obj, measurements,
                                 Num(7, 10), b1).ret,
                    predict_size(persist.reloaded.model.obj,
                                 persist.reloaded.scaler.obj, measurements,
                                 Num(7, 10), b2).ret >>]
    /\ UNCHANGED disk
    /\ PersistOnly

\* train_model, run to its end before anything is saved.
TrainBeforeSaving ==
    /\ persist.pc = "unsaved"
    /\ \/ TrainCall
       \/ TrainPrepare
       \/ TrainNewScaler
       \/ TrainFitScaler
       \/ TrainNewModel
       \/ TrainFit
       \/ TrainEvaluate
       \/ TrainReturn

InitPersist == Constructed("", "") /\ Idle

NextPersist == TrainBeforeSaving \/ SaveModel \/ Reconstruct \/ PredictOnBoth

SpecPersist == InitPersist /\ [][NextPersist]_vars

\* Everything of the size estimator; the scripts and the login handler
\* leave it alone.
estimator == <<ctor, model, scaler, call, ret, handed, lib, logged, caller_mapping, threads, frames, training, sample, disk, persist>>

\* ------------------------------------------- scripts/download_models.py
\* Where each model comes from and the file it is kept in.
MODEL_URLS ==
    [mediapipe_pose |-> [url |-> "storage.googleapis.com",
                         file |-> "pose_landmarker_heavy.task"],
     openpose |-> [url |-> "drive.google.com",
                   file |-> "pose_iter_584000.caffemodel"],
     yolov8_pose |-> [url |-> "github.com", file |-> "yolov8n-pose.pt"],
     cloth_segmentation |-> [url |-> "huggingface.co",
                             file |-> "cloth_segm_u2net_latest.pth"],
     human_parser |-> [url |-> "huggingface.co", file |-> "LIP_JPPNet.pth"],
     viton_model |-> [url |-> "huggingface.co",
                      file |-> "viton_densepose.pth"],
     garment_seg |-> [url |-> "huggingface.co",
                      file |-> "garment_segmentation.pth"]]

ModelFiles ==
    {MODEL_URLS[m].file : m \in DOMAIN MODEL_URLS}
    \cup {"size_estimation_model.pkl"}

\* What the network does to one download: it completes; it fails before a
\* byte is written; it breaks off with part of the file written.
NetworkOutcomes == {"ok", "refused", "truncated"}

\* The names download_models may be asked for.
RequestNames == {"mediapipe_pose", "openpose", "cloth_segmentation",
                 "no_such_model"}

\* download_file(url, filename): every exception of the three download
\* routes is caught and turned into the return value False; `file` is what
\* is then at filename.
download_file(url, outcome) ==
    [raised |-> FALSE, value |-> outcome = "ok",
     file |-> CASE outcome = "ok" -> "downloaded"
                [] outcome = "refused" -> "absent"
                [] outcome = "truncated" -> "partial"]

DlOnly == UNCHANGED <<estimator, ds, auth>>

\* download_models(models_dir, models): the models asked for (None: all)
\* and the files already in models_dir.
StartDownloadModels ==
    /\ dl = NotStarted
    /\ \E models \in UNION {[1..n -> RequestNames] : n \in 0..MaxRequested},
          present \in SUBSET {"pose_landmarker_heavy.task",
                              "size_estimation_model.pkl"} :
        LET todo == IF models = <<>>
                    THEN <<"mediapipe_pose", "openpose", "yolov8_pose",
                           "cloth_segmentation", "human_parser",
                           "viton_model", "garment_seg">>
                    ELSE models
        IN  dl' = [pc |-> "loop", requested |-> todo, todo |-> todo,
                   files |-> [f \in ModelFiles |->
                                 IF f \in present THEN "downloaded"
                                 ELSE "absent"],
                   network |-> [m \in DOMAIN MODEL_URLS |-> "none"],
                   report |-> [m \in DOMAIN MODEL_URLS \cup {"no_such_model"}
                                 |-> "none"]]
    /\ DlOnly

\* One pass of the loop over models_to_download.
DownloadOneModel ==
    /\ dl # NotStarted
    /\ dl.pc = "loop"
    /\ dl.todo # <<>>
    /\ LET model_name == Head(dl.todo)
           rest == [dl EXCEPT !.todo = Tail(dl.todo)]
       IN  IF model_name \notin DOMAIN MODEL_URLS
           THEN dl' = [rest EXCEPT !.report[model_name] = "unknown model"]
           ELSE LET model_info == MODEL_URLS[model_name]
                IN  IF dl.files[model_info.file] # "absent"
                    THEN dl' = [rest EXCEPT
                                  !.report[model_name] = "already exists"]
                    ELSE \E outcome \in NetworkOutcomes :
                           LET r == download_file(model_info.url, outcome)
                           IN  dl' = IF r.raised
                                 THEN [rest EXCEPT
                                   !.network[model_name] = outcome,
                                   !.files[model_info.file] = "placeholder",
                                   !.report[model_name] = "failed"]
                                 ELSE [rest EXCEPT
                                   !.network[model_name] = outcome,
                                   !.files[model_info.file] = r.file,
                                   !.report[model_name] =
                                       "downloaded successfully"]
    /\ DlOnly

\* After the loop: the size estimation model file is created if missing.
FinishDownloadModels ==
    /\ dl # NotStarted
    /\ dl.pc = "loop"
    /\ dl.todo = <<>>
    /\ dl' = [dl EXCEPT !.pc = "done",
                !.files["size_estimation_model.pkl"] =
                    IF @ = "absent" THEN "created" ELSE @]
    /\ DlOnly

InitDownloadModels == Constructed("", "") /\ Idle

NextDownloadModels ==
    StartDownloadModels \/ DownloadOneModel \/ FinishDownloadModels

SpecDownloadModels == InitDownloadModels /\ [][NextDownloadModels]_vars

\* ----------------------------------------- scripts/download_datasets.py
\* A string is the sequence of its pieces, cut where replace() can cut it:
\* 'data/viton' is <<"data/", "viton">>, 'viton_dataset' is
\* <<"viton", "_dataset">>.
\* str.replace(old, ''): every occurrence of the piece is removed.
ReplaceWithEmpty(str, old) == SelectSeq(str, LAMBDA piece : piece # old)

\* os.path.join(a, b) for a relative b.
PathJoin(a, b) == a \o <<"/">> \o b

\* The datasets, each with its name (the key) and where it is extracted.
DATASET_URLS ==
    [viton_dataset |-> [key |-> <<"viton", "_dataset">>,
                        extract_to |-> <<"data/", "viton">>],
     deep_fashion |-> [key |-> <<"deep_fashion">>,
                       extract_to |-> <<"data/", "deep_fashion">>],
     clothing_1m |-> [key |-> <<"clothing_1m">>,
                      extract_to |-> <<"data/", "clothing1m">>]]

\* The order of DATASET_URLS.items().
DatasetOrder == <<"viton_dataset", "deep_fashion", "clothing_1m">>

DataDirs == {<<"data">>, <<"work">>}

\* download_datasets: where a dataset is put.
ExtractPath(data_dir, dataset_name) ==
    PathJoin(data_dir,
             ReplaceWithEmpty(DATASET_URLS[dataset_name].extract_to, "data/"))

\* create_training_manifest: where a dataset is looked for.
ManifestPath(data_dir, dataset_name) ==
    PathJoin(data_dir,
             ReplaceWithEmpty(DATASET_URLS[dataset_name].key, "_dataset"))

DatasetPaths(data_dir) ==
    {ExtractPath(data_dir, d) : d \in DOMAIN DATASET_URLS}
    \cup {ManifestPath(data_dir, d) : d \in DOMAIN DATASET_URLS}

\* One download: download and extraction succeed; the archive arrives but
\* does not extract; the download fails.
DatasetOutcomes == {"ok", "bad_zip", "failed"}

DsOnly == UNCHANGED <<estimator, dl, auth>>

\* download_datasets(data_dir) is called; directories left by earlier runs
\* may be there.
StartDownloadDatasets ==
    /\ ds = NotStarted
    /\ \E data_dir \in DataDirs :
         \E present \in SUBSET DatasetPaths(data_dir) :
           ds' = [pc |-> "loop", data_dir |-> data_dir,
                  todo |-> DatasetOrder,
                  dirs |-> [path \in DatasetPaths(data_dir) |->
                              IF path \in present THEN "nonempty"
                              ELSE "absent"],
                  manifest |-> <<>>]
    /\ DsOnly

\* One pass of the loop over DATASET_URLS.items().
DownloadOneDataset ==
    /\ ds # NotStarted
    /\ ds.pc = "loop"
    /\ ds.todo # <<>>
    /\ LET dataset_name == Head(ds.todo)
           extract_path == ExtractPath(ds.data_dir, dataset_name)
           rest == [ds EXCEPT !.todo = Tail(ds.todo)]
       IN  IF ds.dirs[extract_path] = "nonempty"
           THEN ds' = rest
           ELSE \E outcome \in DatasetOutcomes :
                  ds' = [rest EXCEPT !.dirs[extract_path] =
                            CASE outcome = "ok" -> "nonempty"
                              [] outcome = "bad_zip" -> "empty"
                              [] outcome = "failed" -> "nonempty"]
    /\ DsOnly

\* create_training_manifest(data_dir), after download_datasets returned.
CreateTrainingManifest ==
    /\ ds # NotStarted
    /\ ds.pc = "loop"
    /\ ds.todo = <<>>
    /\ ds' = [ds EXCEPT !.pc = "manifest",
                !.manifest =
                    [dataset_name \in
                        {d \in DOMAIN DATASET_URLS :
                           ds.dirs[ManifestPath(ds.data_dir, d)] # "absent"}
                     |-> [path |-> ManifestPath(ds.data_dir, dataset_name),
                          exists |-> TRUE]]]
    /\ DsOnly

InitDownloadDatasets == Constructed("", "") /\ Idle

NextDownloadDatasets ==
    StartDownloadDatasets \/ DownloadOneDataset \/ CreateTrainingManifest

SpecDownloadDatasets == InitDownloadDatasets /\ [][NextDownloadDatasets]_vars

\* ------------------------------------------------------- api/auth.py
\* The names bound at module level of auth.py: its imports, logger and
\* auth_bp. A name used in a handler and not bound here raises NameError.
ModuleNames ==
    {"Blueprint", "request", "jsonify", "session", "login_user",
     "logout_user", "login_required", "current_user", "check_password_hash",
     "generate_password_hash", "jwt", "datetime", "timedelta", "re",
     "logging", "User", "db", "logger", "auth_bp"}

\* The accounts of the database: the password each was registered with.
Users ==
    [e \in {"ann@x.io", "bob@x.io"} |->
        [password |-> "right", is_active |-> e = "ann@x.io",
         last_login |-> 0]]

\* The JSON bodies of the login requests; json FALSE is a request without
\* a body (or with an empty one); a missing key is the empty string.
LoginRequests ==
    {[json |-> FALSE, email |-> "", password |-> ""]}
    \cup [json : {TRUE},
          email : {"", "ann@x.io", " Ann@X.io ", "bob@x.io", "eve@x.io"},
          password : {"", "right", "wrong"}]

\* email.strip().lower()
StripLower(email) == IF email = " Ann@X.io " THEN "ann@x.io" ELSE email

\* check_password_hash(user.password_hash, password)
check_password_hash(user, password) == user.password = password

Response(status, token) == [status |-> status, token |-> token]

\* login(): the handler, from the request to the response, with the state
\* it leaves behind. `now` is the value of datetime.utcnow().
login(users, session, data, now) ==
    LET email == StripLower(data.email)
        unchanged == [users |-> users, session |-> session]
        logged_in == [users |-> [users EXCEPT ![email].last_login = now],
                      session |-> email]
    IN  IF ~data.json
        THEN [state |-> unchanged, response |-> Response(400, "")]
        ELSE IF email = "" \/ data.password = ""
        THEN [state |-> unchanged, response |-> Response(400, "")]
        ELSE IF \/ email \notin DOMAIN users
                \/ ~check_password_hash(users[email], data.password)
        THEN [state |-> unchanged, response |-> Response(401, "")]
        ELSE IF ~users[email].is_active
        THEN [state |-> unchanged, response |-> Response(401, "")]
        ELSE IF "current_app" \notin ModuleNames
        THEN [state |-> logged_in, response |-> Response(500, "")]
        ELSE [state |-> logged_in, response |-> Response(200, email)]

AuthOnly == UNCHANGED <<estimator, dl, ds>>

\* The application serves; nobody is logged in.
StartServing ==
    /\ auth = NotStarted
    /\ auth' = [pc |-> "serving", users |-> Users, session |-> "", now |-> 0,
                last |-> [op |-> "none"]]
    /\ AuthOnly

\* POST /login
Login ==
    /\ auth # NotStarted
    /\ auth.now < MaxClock
    /\ \E data \in LoginRequests :
        LET now == auth.now + 1
            r == login(auth.users, auth.session, data, now)
        IN  auth' = [auth EXCEPT
                       !.users = r.state.users,
                       !.session = r.state.session,
                       !.now = now,
                       !.last = [op |-> "login", request |-> data,
                                 response |-> r.response,
                                 before |-> [users |-> auth.users,
                                             session |-> auth.session]]]
    /\ AuthOnly

\* POST /logout, for a logged-in caller (login_required).
Logout ==
    /\ auth # NotStarted
    /\ auth.session # ""
    /\ auth' = [auth EXCEPT !.session = "",
                  !.last = [op |-> "logout", response |-> Response(200, "")]]
    /\ AuthOnly

InitLogin == Constructed("", "") /\ Idle

NextLogin == StartServing \/ Login \/ Logout

SpecLogin == InitLogin /\ [][NextLogin]_vars

\* =============================================================== claims
\* Shorthands used by the properties below.
IsCall(op) == call.op = op
ShoulderOf(measurements) == Get(measurements, "shoulder_width", PyInt(0))
AllNumeric(measurements) ==
    \A k \in DOMAIN measurements : IsNumber(measurements[k])
\* r is a returned rule-based result: method 'rule_based', confidence 0.5.
IsRuleBased(r) ==
    /\ ~r.raised
    /\ "method" \in DOMAIN r.value
    /\ r.value.method = "rule_based"
    /\ r.value.confidence = Num(1, 2)
\* The except branch of predict_size was entered.
InferenceRaised == logged = <<"error: size prediction">>

\* C1: with no model loaded, predict_size returns for every measurement
\* mapping and every confidence_threshold a result with method
\* 'rule_based' and confidence 0.5.
C1_NoModelIsRuleBased ==
    (IsCall("predict_size") /\ model = "none") => IsRuleBased(ret)

\* C2: a rule-based result gives the size by the thresholds 35/40/45/50/55
\* on shoulder_width (0 when absent): the size index is the number of
\* thresholds that shoulder_width has reached.  The size is thus a
\* non-decreasing function of shoulder_width alone.
C2_RuleBasedThresholds ==
    (IsCall("predict_size") /\ ~ret.raised /\ "method" \in DOMAIN ret.value)
    => LET w == ShoulderOf(call.measurements)
       IN  /\ IsNumber(w)
           /\ ret.value.predicted_size =
                size_mapping[Cardinality({t \in {35, 40, 45, 50, 55} :
                                            t * w.d <= w.n})]

\* C2 witness: shoulder_width 54 with other measurements present is XL.
C2_Witness ==
    /\ IsCall("predict_size")
    /\ IsRuleBased(ret)
    /\ "chest_width" \in DOMAIN call.measurements
    /\ ShoulderOf(call.measurements) = PyInt(54)
    /\ ret.value.predicted_size = "XL"

\* C3: with a model loaded, an inference that raises (in normalization,
\* feature extraction, scaler.transform, the classifier or the
\* class-to-label lookup) is not propagated: predict_size returns a
\* rule-based result (method 'rule_based', confidence 0.5) on the given
\* measurements.  This holds for numeric measurements, and more widely
\* whenever shoulder_width is absent or a number.
C3_InferenceErrorFallsBack ==
    (IsCall("predict_size") /\ model # "none" /\ InferenceRaised
        /\ IsNumber(ShoulderOf(call.measurements)))
    => /\ IsRuleBased(ret)
       /\ ret.value.measurements_used = call.measurements

\* C3 witness: the classifier was reached with numeric measurements, the
\* inference raised and a rule-based result came back.
C3_Witness ==
    /\ IsCall("predict_size")
    /\ model # "none"
    /\ InferenceRaised
    /\ handed # <<>>
    /\ DOMAIN call.measurements # {}
    /\ AllNumeric(call.measurements)
    /\ IsRuleBased(ret)

\* C4: the caller never observes an exception from predict_size, for
\* every input mapping (values missing, None or non-numeric included) and
\* every model / scaler state.
C4_PredictNeverRaises == IsCall("predict_size") => ~ret.raised

\* C5: extract_features returns for every measurement mapping a 1 x 6
\* vector of numeric values.
C5_FeaturesAreSixNumbers ==
    IsCall("extract_features")
    => /\ ~ret.raised
       /\ Len(ret.value) = 1
       /\ Len(ret.value[1]) = 6
       /\ \A i \in 1..6 : IsNumber(ret.value[1][i])

\* x = (a / b) * y for Python numbers x and y.
IsRatio(x, a, b, y) == x.n * b * y.d = a * y.n * x.d

C7_HandedFeaturesNumeric ==
    (IsCall("predict_size") /\ handed # <<>>)
    => \A i \in 1..Len(handed[1]) : IsNumber(handed[1][i])

\* C8 as claimed: without torso_length, the values of a non-empty mapping
\* come back unchanged (factor 1.0).
C8_AbsentTorsoNoScaling ==
    (IsCall("normalize_measurements")
        /\ "torso_length" \notin DOMAIN call.measurements
        /\ DOMAIN call.measurements # {})
    => /\ ~ret.raised
       /\ DOMAIN ret.value = DOMAIN call.measurements
       /\ \A k \in DOMAIN ret.value : PyEq(ret.value[k], call.measurements[k])

\* C8 as amended: without torso_length, torso_length is taken to be 100,
\* so every number in the mapping is multiplied by
\* reference_height / (100 x 3.5 x 0.1) = reference_height / 35; the
\* other values are unchanged.
C8_AbsentTorsoDefaultScale ==
    (IsCall("normalize_measurements")
        /\ "torso_length" \notin DOMAIN call.measurements)
    => /\ ~ret.raised
       /\ DOMAIN ret.value = DOMAIN call.measurements
       /\ \A k \in DOMAIN ret.value :
            LET v == call.measurements[k]
                out == ret.value[k]
            IN  IF IsNumber(v)
                THEN /\ out.kind = "num"
                     /\ out.n * 35 * v.d * call.arg.d = v.n * call.arg.n * out.d
                ELSE out = v

\* C8 witness: shoulder_width 42 without torso_length, reference height
\* 170: 42 x 170 / 35 = 204.
C8_Witness ==
    /\ IsCall("normalize_measurements")
    /\ call.arg = PyInt(170)
    /\ "torso_length" \notin DOMAIN call.measurements
    /\ "shoulder_width" \in DOMAIN call.measurements
    /\ call.measurements["shoulder_width"] = PyInt(42)
    /\ ~ret.raised
    /\ ret.value["shoulder_width"] = PyInt(204)

\* C9: normalize_measurements returns the empty mapping for the empty
\* mapping, and for a torso_length that is a number <= 0 a mapping with
\* the same keys and unchanged values.
C9_EmptyAndNonPositiveTorso ==
    IsCall("normalize_measurements")
    => LET m == call.measurements
       IN  /\ DOMAIN m = {} => (~ret.raised /\ DOMAIN ret.value = {})
           /\ ("torso_length" \in DOMAIN m /\ IsNumber(m["torso_length"])
                 /\ m["torso_length"].n <= 0)
              => /\ ~ret.raised
                 /\ DOMAIN ret.value = DOMAIN m
                 /\ \A k \in DOMAIN m : PyEq(ret.value[k], m[k])

\* C9 witness: torso_length -5 beside shoulder_width 42 and a None
\* hip_width: all three come back as they were.
C9_Witness ==
    /\ IsCall("normalize_measurements")
    /\ DOMAIN call.measurements = {"torso_length", "shoulder_width", "hip_width"}
    /\ call.measurements["torso_length"] = PyInt(-5)
    /\ call.measurements["shoulder_width"] = PyInt(42)
    /\ ~ret.raised
    /\ ret.value = call.measurements

\* out = v x reference_height / (torso_length x 3.5 x 0.1)
IsNormalized(out, v, reference_height, torso) ==
    /\ out.kind = "num"
    /\ out.n * 35 * torso.n * v.d * reference_height.d
         = 100 * v.n * reference_height.n * torso.d * out.d

PositiveTorso(measurements) ==
    /\ "torso_length" \in DOMAIN measurements
    /\ IsNumber(measurements["torso_length"])
    /\ measurements["torso_length"].n > 0

\* C10: with a positive torso_length, normalize_measurements returns a
\* mapping with the input's keys in which every number of the input
\* (torso_length too) is multiplied by
\* reference_height / (torso_length x 3.5 x 0.1); predict_size normalizes
\* with the default reference_height, 170.
C10_PositiveTorsoScale ==
    LET m == call.measurements
    IN  /\ (IsCall("normalize_measurements") /\ PositiveTorso(m))
           => /\ ~ret.raised
              /\ DOMAIN ret.value = DOMAIN m
              /\ \A k \in DOMAIN m :
                   IsNumber(m[k])
                   => IsNormalized(ret.value[k], m[k], call.arg,
                                   m["torso_length"])
        /\ (IsCall("predict_size") /\ PositiveTorso(m) /\ ~ret.raised
              /\ "method" \notin DOMAIN ret.value)
           => /\ DOMAIN ret.value.measurements_used = DOMAIN m
              /\ \A k \in DOMAIN m :
                   IsNumber(m[k])
                   => IsNormalized(ret.value.measurements_used[k], m[k],
                                   PyInt(170), m["torso_length"])

\* C10 witness: torso_length 85 and shoulder_width 42 at reference height
\* 180: the factor is 180 / 29.75, torso_length becomes 3600 / 7.
C10_Witness ==
    /\ IsCall("normalize_measurements")
    /\ call.arg = PyInt(180)
    /\ DOMAIN call.measurements = {"torso_length", "shoulder_width"}
    /\ call.measurements["torso_length"] = PyInt(85)
    /\ call.measurements["shoulder_width"] = PyInt(42)
    /\ ~ret.raised
    /\ ret.value["torso_length"] = Num(3600, 7)
    /\ ret.value["shoulder_width"] = Num(4320, 17)

\* C11: normalize_measurements raises no error and returns every
\* non-numeric value (None, string, boolean, list) unchanged, under
\* whatever key it is held (torso_length included).
C11_NonNumericPassThrough ==
    IsCall("normalize_measurements")
    => /\ ~ret.raised
       /\ \A k \in DOMAIN call.measurements :
            call.measurements[k].kind \in {"none", "str", "bool", "list"}
            => ret.value[k] = call.measurements[k]

\* The labels by class index, as the claims name them.
Labels == <<"XS", "S", "M", "L", "XL", "XXL">>
\* The call returned the classifier's prediction.
ModelResult ==
    IsCall("predict_size") /\ ~ret.raised /\ "method" \notin DOMAIN ret.value
\* The libraries were reached and neither raised.
LibrariesAnswered ==
    /\ handed # <<>>
    /\ ~(scaler # "none" /\ lib.scaler_raises)
    /\ ~lib.answer.raises

\* C12: with a predict_proba classifier and a successful inference, the
\* result names the first class of greatest probability, gives that
\* probability as confidence and the whole vector as all_probabilities.
C12_ProbaArgMax ==
    (IsCall("predict_size") /\ model = "proba" /\ ~InferenceRaised)
    => LET p == lib.answer.proba
       IN  /\ ModelResult
           /\ LibrariesAnswered
           /\ ret.value.all_probabilities = p
           /\ \E i \in 1..Len(p) :
                /\ \A j \in 1..Len(p) : p[j] <= p[i]
                /\ \A j \in 1..(i - 1) : p[j] < p[i]
                /\ ret.value.predicted_size = Labels[i]
                /\ ret.value.confidence = Num(p[i], 100)

\* C12 witness: classes 0 and 1 tie at 0.4: the answer is XS with
\* confidence 0.4.
C12_Witness ==
    /\ ModelResult
    /\ model = "proba"
    /\ lib.answer.proba = <<40, 40, 5, 5, 5, 5>>
    /\ ret.value.predicted_size = "XS"
    /\ ret.value.confidence = Num(2, 5)

\* C13: with a classifier that has predict only and a successful
\* inference, the result names the predicted class, with confidence 1.0
\* and all_probabilities None.
C13_HardLabel ==
    (IsCall("predict_size") /\ model = "hard" /\ ~InferenceRaised)
    => /\ ModelResult
       /\ LibrariesAnswered
       /\ lib.answer.cls \in 0..5
       /\ ret.value.predicted_size = Labels[lib.answer.cls + 1]
       /\ ret.value.confidence = PyInt(1)
       /\ ret.value.all_probabilities = PyNone

\* C13 witness: predict answers class 3: L with confidence 1.0.
C13_Witness ==
    /\ ModelResult
    /\ model = "hard"
    /\ lib.answer.cls = 3
    /\ ret.value.predicted_size = "L"
    /\ ret.value.confidence = PyInt(1)

\* C14: the outcome of a predict_size call is the outcome of the same call
\* with any other confidence_threshold, and a prediction whose confidence
\* is below the threshold is returned all the same, with a warning logged.
C14_ThresholdIrrelevant ==
    IsCall("predict_size")
    => /\ \A t \in Thresholds :
            predict_size(model, scaler, call.measurements, t, lib).ret = ret
       /\ (ModelResult /\ RatLt(ret.value.confidence, call.arg))
          <=> logged = <<"warning: low confidence">>

\* C14 witness: confidence 0.4 under the threshold 0.7 is returned.
C14_Witness ==
    /\ ModelResult
    /\ call.arg = Num(7, 10)
    /\ ret.value.confidence = Num(2, 5)
    /\ logged = <<"warning: low confidence">>

C16_LabelAndConfidenceRange ==
    (IsCall("predict_size") /\ ~ret.raised)
    => /\ ret.value.predicted_size \in {"XS", "S", "M", "L", "XL", "XXL"}
       /\ ret.value.confidence.kind = "num"
       /\ 0 <= ret.value.confidence.n
       /\ ret.value.confidence.n <= ret.value.confidence.d
       /\ (LibrariesAnswered /\ model = "hard" /\ lib.answer.cls \notin 0..5)
          => IsRuleBased(ret)

\* C16 witness: predict answers class 6 and the rule-based result for
\* shoulder_width 42, M, is returned.
C16_Witness ==
    /\ IsCall("predict_size")
    /\ model = "hard"
    /\ LibrariesAnswered
    /\ lib.answer.cls = 6
    /\ IsRuleBased(ret)
    /\ ret.value.predicted_size = "M"

C18_ModelScalerImmutable ==
    LET built == __init__(ctor.model_path, ctor.scaler_path)
    IN  model = built.model /\ scaler = built.scaler

\* C18 witness: an inference failed and fell back; the classifier and the
\* scaler are still loaded.
C18_Witness ==
    /\ IsCall("predict_size")
    /\ InferenceRaised
    /\ ~ret.raised
    /\ model = "hard"
    /\ scaler = "std"

\* C19: __init__ never raises because of the artifacts; without a path,
\* with a path that does not exist or with a file that cannot be loaded
\* the model (the scaler) is None; with model None every predict_size
\* takes the rule-based path, reaching neither scaler nor classifier.
C19_ConstructionNeverFails ==
    /\ ~ctor.raised
    /\ ctor.model_path \in {"", "missing.pkl", "corrupt.pkl"} => model = "none"
    /\ ctor.scaler_path \in {"", "missing.pkl", "corrupt.pkl"}
         => scaler = "none"
    /\ (model = "none" /\ IsCall("predict_size"))
       => /\ logged = <<"warning: no model">>
          /\ handed = <<>>
          /\ ~ret.raised => /\ IsRuleBased(ret)
                            /\ ret.value.measurements_used = call.measurements

\* C19 witness: the model file cannot be loaded, the scaler file can:
\* predict_size is rule-based.
C19_Witness ==
    /\ ctor.model_path = "corrupt.pkl"
    /\ ctor.scaler_path = "std.pkl"
    /\ model = "none"
    /\ scaler = "std"
    /\ IsCall("predict_size")
    /\ IsRuleBased(ret)

\* C20: concurrent predict_size calls on one estimator need no locking:
\* under every interleaving a call that has returned holds exactly the
\* outcome predict_size gives for its input run alone, a call in flight
\* still sees the input it was given, and the model and the scaler are
\* the ones __init__ left.
C20_ConcurrentCallsIndependent ==
    /\ LET built == __init__(ctor.model_path, ctor.scaler_path)
       IN  model = built.model /\ scaler = built.scaler
    /\ \A t \in Threads :
        /\ threads[t].pc # "idle"
           => frames[Frame(t)].measurements = threads[t].input
        /\ threads[t].pc = "returned"
           => threads[t].out = predict_size(model, scaler, threads[t].input,
                                            threads[t].arg,
                                            threads[t].behaviour)

\* C20 witness: two calls with different inputs overlapped and both
\* returned a model result, each with its own measurements.
C20_Witness ==
    /\ \A t \in {1, 2} :
        /\ threads[t].pc = "returned"
        /\ threads[t].overlapped
        /\ threads[t].out.logged = <<>>
        /\ ~threads[t].out.ret.raised
    /\ threads[1].input # threads[2].input
    /\ threads[1].out.ret.value.measurements_used
         # threads[2].out.ret.value.measurements_used

\* A train_model call has ended.
TrainEnded == trainer.pc = "returned"

\* C21: train_model with a model_type other than 'xgboost' and
\* 'random_forest' raises and returns no training result; with a
\* well-formed training frame the exception is ValueError.
C21_UnsupportedTypeRaises ==
    (TrainEnded /\ trainer.model_type \notin {"xgboost", "random_forest"})
    => /\ trainer.out.raised
       /\ trainer.out.value = NoValue
       /\ trainer.training_data = "synthetic"
          => trainer.out.exc = "ValueError"

\* C21 witness: train_model(synthetic data, 'svm') has raised ValueError.
C21_Witness ==
    /\ TrainEnded
    /\ trainer.model_type = "svm"
    /\ trainer.training_data = "synthetic"
    /\ trainer.out = Raises("ValueError")

\* C25: a train_model call that failed with the unsupported-model-type
\* error has left self.model and self.scaler as they were before the call.
C25_FailedTrainingLeavesEstimator ==
    (TrainEnded /\ trainer.out = Raises("ValueError"))
    => /\ model = trainer.before.model
       /\ scaler = trainer.before.scaler
       /\ runs = trainer.before.runs

\* C26: with train_model running next to predict_size, a predict_size call
\* that reached the classifier used a fitted scaler (or none) and a fitted
\* classifier made by the same train_model call (or both by __init__).
C26_InferenceWithConsistentPair ==
    \A t \in Threads :
        threads[t].model_seen # NotRead
        => /\ threads[t].model_seen.obj # "unfitted"
           /\ threads[t].scaler_seen.obj # "unfitted"
           /\ threads[t].scaler_seen.run = threads[t].model_seen.run

\* C27: when predict_size falls back after an inference error, its outcome
\* is the outcome of an estimator with no model on the same input: the
\* size comes from the raw shoulder_width and measurements_used is the
\* caller's mapping.
C27_FallbackIsNoModelResult ==
    (IsCall("predict_size") /\ InferenceRaised)
    => /\ ret = predict_size("none", "none", call.measurements, call.arg,
                             NoLibrary).ret
       /\ ~ret.raised
          => /\ ret.value.measurements_used = call.measurements
             /\ ret.value.predicted_size
                  = SizeOfShoulder(ShoulderOf(call.measurements))

\* C27 witness: a fallback on a mapping whose normalized shoulder_width
\* (240) would be XXL; the result is M, from the raw 42.
C27_Witness ==
    /\ IsCall("predict_size")
    /\ InferenceRaised
    /\ handed # <<>>
    /\ call.measurements = MkDict([k \in Keys |->
          CASE k = "shoulder_width" -> PyInt(42)
            [] k = "torso_length" -> PyInt(85)
            [] OTHER -> Absent])
    /\ ~ret.raised
    /\ ret.value.predicted_size = "M"
    /\ ret.value.measurements_used = call.measurements

\* C28: predict_size, normalize_measurements and extract_features leave the
\* caller's mapping with the keys and values it had, on the model path,
\* the rule-based path and the error fallback, returning or raising.
C28_InputMappingUntouched ==
    call # NoCall => caller_mapping = call.measurements

\* C28 witness: predict_size returned a model result whose
\* measurements_used differ from the input; the input is as it was.
C28_Witness ==
    /\ IsCall("predict_size")
    /\ ~ret.raised
    /\ "method" \notin DOMAIN ret.value
    /\ ret.value.measurements_used # call.measurements
    /\ caller_mapping = call.measurements

\* C24 (as stated): where generate_synthetic_data is about to draw a row,
\* there is a size label and a shoulder_width it can draw for that label
\* to which _rule_based_prediction gives another label.
C24_GeneratorDisagreesWithRule ==
    sample.pc = "none"
    => \E size \in DOMAIN size_stats :
        \E shoulder_width \in UniformOf(size_stats[size].shoulder, GridSteps) :
            LET rule == _rule_based_prediction(
                            [k \in {"shoulder_width"} |-> shoulder_width])
            IN  rule.raised \/ rule.value.predicted_size # size

\* C24 (amended): to every shoulder_width generate_synthetic_data draws
\* for a label, _rule_based_prediction gives that label: the shoulder
\* ranges [30,35) ... [55,60) and the thresholds 35 ... 55 coincide.
C24_GeneratorAgreesWithRule ==
    sample.pc = "ruled"
    => /\ ~sample.rule.raised
       /\ sample.rule.value.predicted_size = sample.size

\* C24 witness: rows at the lower end of the S range (35, a threshold of
\* the rule) are S for the rule too.
C24_Witness ==
    /\ sample.pc = "ruled"
    /\ sample.size = "S"
    /\ sample.row["shoulder_width"] = PyInt(35)
    /\ sample.rule.value.predicted_size = "S"

\* The estimator that was saved had been trained: its classifier was made
\* and fitted by a train_model call.
SavedTrained ==
    /\ persist.saved.model.obj = "proba"
    /\ persist.saved.model.run >= 1

\* C22: after save_model on a trained estimator, scaler_path given or
\* left out, the SizeEstimator built from the saved artifacts has the
\* same model and the same scaler and predicts as the saved one does.
C22_SaveLoadRoundTrip ==
    (persist.pc \in {"reloaded", "compared"} /\ SavedTrained)
    => /\ persist.reloaded.model = persist.saved.model
       /\ persist.reloaded.scaler = persist.saved.scaler
       /\ persist.pc = "compared"
          => persist.outcomes[1] = persist.outcomes[2]

\* The known models download_models was asked for.
RequestedKnown ==
    {dl.requested[i] : i \in DOMAIN dl.requested} \cap DOMAIN MODEL_URLS

\* C23: when download_models has returned, every requested known model has
\* a file at its path, and a model whose download failed has a placeholder
\* there and is not reported as downloaded successfully.
C23_FailedDownloadLeavesPlaceholder ==
    (dl # NotStarted /\ dl.pc = "done")
    => \A m \in RequestedKnown :
        /\ dl.files[MODEL_URLS[m].file] # "absent"
        /\ dl.network[m] \in {"refused", "truncated"}
           => /\ dl.files[MODEL_URLS[m].file] = "placeholder"
              /\ dl.report[m] # "downloaded successfully"

\* C30: after download_datasets and create_training_manifest, every dataset
\* whose extract directory exists under data_dir is listed in the manifest's
\* datasets section under the path where download_datasets put it.
C30_ManifestListsEveryDataset ==
    (ds # NotStarted /\ ds.pc = "manifest")
    => \A d \in DOMAIN DATASET_URLS :
         ds.dirs[ExtractPath(ds.data_dir, d)] # "absent"
         => /\ d \in DOMAIN ds.manifest
            /\ ds.manifest[d].path = ExtractPath(ds.data_dir, d)

\* The last request was a login.
LoginAnswered == auth # NotStarted /\ auth.last.op = "login"

\* The request carries the correct password of an active user.
CorrectOfActive(data, users) ==
    /\ data.json
    /\ StripLower(data.email) \in DOMAIN users
    /\ users[StripLower(data.email)].is_active
    /\ data.password # ""
    /\ check_password_hash(users[StripLower(data.email)], data.password)

\* C29: a login answered with an error status (400, 401 or 500) leaves the
\* server state unchanged (no session is established, last_login is not
\* updated), and a request with the correct password of an active user is
\* answered 200 with a token.
C29_ErrorLeavesStateSuccessAnswers200 ==
    LoginAnswered
    => /\ auth.last.response.status \in {400, 401, 500}
          => /\ auth.users = auth.last.before.users
             /\ auth.session = auth.last.before.session
       /\ CorrectOfActive(auth.last.request, auth.last.before.users)
          => /\ auth.last.response.status = 200
             /\ auth.last.response.token # ""

====
